---- MODULE Spec2Model ----
(***************************************************************************)
(* SchedulerService (backend/services/scheduler_service.py) as a state     *)
(* machine.  One asyncio event loop runs the polling loop, the dispatched  *)
(* executions and the control API; every action below is one stretch of    *)
(* code between two suspension points of that event loop.                  *)
(*                                                                         *)
(* Time is counted in seconds: datetime values are integers, and a         *)
(* timedelta(seconds=n) is n.  Two calls of datetime.now() may return the  *)
(* same instant.                                                           *)
(***************************************************************************)
EXTENDS Integers, Sequences, FiniteSets, TLC

\* ----------------------------------------------------------------- bounds
\* The clock runs from 0 to MaxTime.
MaxTime == 2
\* At most MaxExecs executions are dispatched in a run.
MaxExecs == 2
\* Seconds in a day of the model's calendar.
DayLen == 3
\* At most MaxLoops loops, cancelled ones included, are alive at a time.
MaxLoops == 2
\* The service is constructed at an instant of the first CalcDays days.
CalcDays == 8
\* Where the loop's backoff is followed, the clock runs from 0 to MaxBackoffTime.
MaxBackoffTime == 6

\* ------------------------------------------------------ program constants
\* asyncio.sleep(1) at the end of a tick.
TickSleep == 1
\* asyncio.sleep(5) after an exception in a tick.
BackoffSleep == 5
\* A next_run that is not a datetime: comparing it with now raises TypeError.
Corrupt == -3
\* In loops: the loop was cancelled (Task.cancel()) and has not yet been
\* resumed to raise CancelledError.
Cancelled == -2
\* Optional[datetime] = None
None == -1
\* Optional[str] = None
NoneStr == "None"
\* ValueError(f"Handler not found for action: {task.action}")
HandlerNotFound == "Handler not found"

\* ------------------------------------------------------------ input sets
\* "act" is the action handlers are registered for, "other" is never registered.
Actions == {"act", "other"}
Messages == {"e1", "e2"}
ScheduleTypes == {"once", "interval", "daily", "weekly"}
Intervals == {1, 2}
OnceTimes == {1}
\* register_handler is called with these (action, callable) pairs.
RegInputs == {<<"act", "sync">>, <<"act", "async">>}

\* schedule_value is a pair <<weekday, v>>: v is the datetime of 'once', the
\* seconds of 'interval', the time of day of 'daily' and 'weekly'; weekday is
\* set for 'weekly' only.
ValuesOf(stype) ==
    CASE stype = "once" -> {<<None, t>> : t \in OnceTimes}
      [] stype = "interval" -> {<<None, n>> : n \in Intervals}
      [] stype = "daily" -> {<<None, t>> : t \in {1}}
      [] stype = "weekly" -> {<<w, t>> : w \in {0, 1}, t \in {1}}

\* Every interval, every time of day and every weekday of the calendar.
CalcValuesOf(stype) ==
    CASE stype = "interval" -> {<<None, n>> : n \in Intervals}
      [] stype = "daily" -> {<<None, t>> : t \in 0..(DayLen - 1)}
      [] stype = "weekly" -> {<<w, t>> : w \in 0..6, t \in 0..(DayLen - 1)}

\* ---------------------------------------------------------------- state
VARIABLES
    now,            \* datetime.now()
    obj,            \* the ScheduledTask objects ever constructed, by id
    tasks,          \* self.tasks: the ids held in the store
    task_handlers,  \* self.task_handlers: action -> kind of callable
    running,        \* self.running
    loops,          \* the live _scheduler_loop coroutines: each one's remaining sleep
    scheduler_task, \* self._scheduler_task: "None", "live" (the last of loops) or "done"
    execs,          \* the _execute_task coroutines not yet finished, in creation order
    nexec,          \* number of executions dispatched so far
    hist            \* per task: what has been done to it (history)

vars == <<now, obj, tasks, task_handlers, running, loops, scheduler_task,
          execs, nexec, hist>>

\* ------------------------------------------------------ the calendar
DateOf(t) == t \div DayLen
TimeOf(t) == t % DayLen
Weekday(t) == DateOf(t) % 7
Combine(date, time) == date * DayLen + time

\* ------------------------------------------------- Next-Run Calculator
\* A faulty 'interval' branch: it counts from now whatever last_run is.
interval_next_run_from_now(task, t) == t + task.schedule_value[2]

\* The 'interval' branch of _calculate_next_run; `if task.last_run:` holds
\* for every datetime.
interval_next_run(task, t) ==
    IF task.last_run # None
    THEN task.last_run + task.schedule_value[2]
    ELSE t + task.schedule_value[2]

\* A faulty 'daily' branch: it keeps a candidate that is equal to now.
daily_next_run_keeping_now(task, t) ==
    LET next_run == Combine(DateOf(t), task.schedule_value[2])
    IN  IF next_run < t THEN next_run + DayLen ELSE next_run

\* The 'daily' branch of _calculate_next_run.
daily_next_run(task, t) ==
    LET next_run == Combine(DateOf(t), task.schedule_value[2])
    IN  IF next_run <= t THEN next_run + DayLen ELSE next_run

\* A faulty 'weekly' branch: it does not subtract now.weekday().
weekly_next_run_from_today(task, t) ==
    LET d0 == task.schedule_value[1]
        days_ahead == IF d0 <= 0 THEN d0 + 7 ELSE d0
        next_run == Combine(DateOf(t) + days_ahead, task.schedule_value[2])
    IN  IF next_run <= t THEN next_run + 7 * DayLen ELSE next_run

\* The 'weekly' branch of _calculate_next_run.
weekly_next_run(task, t) ==
    LET d0 == task.schedule_value[1] - Weekday(t)
        days_ahead == IF d0 <= 0 THEN d0 + 7 ELSE d0
        next_run == Combine(DateOf(t) + days_ahead, task.schedule_value[2])
    IN  IF next_run <= t THEN next_run + 7 * DayLen ELSE next_run

\* A faulty calculator: it does not look at task.enabled.
calculate_next_run_ignoring_enabled(task, t) ==
    CASE task.schedule_type = "once" ->
            IF task.schedule_value[2] > t /\ task.run_count = 0
            THEN task.schedule_value[2] ELSE None
      [] task.schedule_type = "interval" -> interval_next_run(task, t)
      [] task.schedule_type = "daily" -> daily_next_run(task, t)
      [] task.schedule_type = "weekly" -> weekly_next_run(task, t)
      [] OTHER -> None

\* _calculate_next_run(task) called when datetime.now() is t.
calculate_next_run(task, t) ==
    IF ~task.enabled THEN None
    ELSE CASE task.schedule_type = "once" ->
                IF task.schedule_value[2] > t /\ task.run_count = 0
                THEN task.schedule_value[2] ELSE None
           [] task.schedule_type = "interval" -> interval_next_run(task, t)
           [] task.schedule_type = "daily" -> daily_next_run(task, t)
           [] task.schedule_type = "weekly" -> weekly_next_run(task, t)
           [] OTHER -> None

\* ------------------------------------------------------------ records
ScheduledTask(id, name, action, parameters, stype, svalue, t) ==
    [id |-> id, name |-> name, action |-> action, parameters |-> parameters,
     schedule_type |-> stype, schedule_value |-> svalue, enabled |-> TRUE,
     last_run |-> None, next_run |-> None, run_count |-> 0, error_count |-> 0,
     last_error |-> NoneStr, created_at |-> t]

\* History of a task: whether update_task (enable_task, disable_task) was
\* called on it, and whether the last such call enabled it when it was
\* disabled ("reenabled"); whether run_task_now was called on it; how its last
\* finished execution ended.
NoHist == [updated |-> "no", manual |-> FALSE, outcome |-> "none"]

\* An execution: the _execute_task coroutine created for the task object with
\* this id, by the loop or by run_task_now.  It is pending until the event loop
\* first runs it, and running once it has invoked the handler.
Execution(id, src) ==
    [task |-> id, src |-> src, status |-> "pending", kind |-> "none", started |-> None]

\* A synchronous handler that has been invoked and has not returned holds the
\* event loop: nothing else runs until it returns.
Blocked == \E i \in DOMAIN execs : execs[i].status = "running" /\ execs[i].kind = "sync"

Init ==
    /\ now = 0
    /\ obj = <<>>
    /\ tasks = {}
    /\ task_handlers = <<>>
    /\ running = FALSE
    /\ loops = <<>>
    /\ scheduler_task = "None"
    /\ execs = <<>>
    /\ nexec = 0
    /\ hist = <<>>

\* The clock, up to limit.
AdvanceUpTo(limit) ==
    /\ now < limit
    /\ now' = now + 1
    /\ loops' = [i \in DOMAIN loops |-> IF loops[i] > 0 THEN loops[i] - 1 ELSE loops[i]]
    /\ UNCHANGED <<obj, tasks, task_handlers, running, scheduler_task,
                   execs, nexec, hist>>

Advance == AdvanceUpTo(MaxTime)

\* register_handler(action, handler)
RegisterHandler(action, kind) ==
    /\ ~Blocked
    /\ task_handlers' = (action :> kind) @@ task_handlers
    /\ UNCHANGED <<now, obj, tasks, running, loops, scheduler_task, execs, nexec, hist>>

\* The task create_task stores: the dataclass defaults, then next_run.
create_task(id, name, action, parameters, stype, svalue, t) ==
    LET task == ScheduledTask(id, name, action, parameters, stype, svalue, t)
    IN  [task EXCEPT !.next_run = calculate_next_run(task, t)]

\* A faulty create_task: it does not look the action up.
CreateTask_unchecked(ids, name, action, parameters, stype, svalue) ==
    /\ ~Blocked
    /\ Len(obj) < Cardinality(ids)
    /\ LET task_id == Len(obj) + 1
       IN  /\ obj' = Append(obj, create_task(task_id, name, action, parameters,
                                             stype, svalue, now))
           /\ tasks' = tasks \cup {task_id}
           /\ hist' = Append(hist, NoHist)
    /\ UNCHANGED <<now, task_handlers, running, loops, scheduler_task, execs, nexec>>

\* create_task(name, action, parameters, schedule_type, schedule_value); uuid4
\* draws the id from ids.
CreateTask(ids, name, action, parameters, stype, svalue) ==
    /\ ~Blocked
    /\ Len(obj) < Cardinality(ids)
    /\ IF action \notin DOMAIN task_handlers
       THEN UNCHANGED <<obj, tasks, hist>>
       ELSE LET task_id == Len(obj) + 1
            IN  /\ obj' = Append(obj, create_task(task_id, name, action, parameters,
                                                  stype, svalue, now))
                /\ tasks' = tasks \cup {task_id}
                /\ hist' = Append(hist, NoHist)
    /\ UNCHANGED <<now, task_handlers, running, loops, scheduler_task, execs, nexec>>

SchedulingKeys == {"schedule_type", "schedule_value", "enabled"}

\* A faulty update_task: it recomputes next_run whatever the keys.
update_task_recomputing_always(task, updates, t) ==
    LET set == [k \in DOMAIN task |->
                   IF k \in DOMAIN updates THEN updates[k] ELSE task[k]]
    IN  [set EXCEPT !.next_run = calculate_next_run(set, t)]

\* A faulty update_task: it recomputes next_run for schedule_type and
\* schedule_value only, not for enabled.
update_task_schedule_keys_only(task, updates, t) ==
    LET set == [k \in DOMAIN task |->
                   IF k \in DOMAIN updates THEN updates[k] ELSE task[k]]
    IN  IF DOMAIN updates \cap {"schedule_type", "schedule_value"} # {}
        THEN [set EXCEPT !.next_run = calculate_next_run(set, t)]
        ELSE set

\* update_task on a known task: setattr for every key, then next_run.
update_task(task, updates, t) ==
    LET set == [k \in DOMAIN task |->
                   IF k \in DOMAIN updates THEN updates[k] ELSE task[k]]
    IN  IF DOMAIN updates \cap SchedulingKeys # {}
        THEN [set EXCEPT !.next_run = calculate_next_run(set, t)]
        ELSE set

\* The keyword arguments update_task is called with for this task: no key,
\* name, parameters, schedule_value, schedule_type with schedule_value, or
\* name with enabled (enabled alone is enable_task, disable_task).  The
\* schedule_value passed, or kept, is one of the schedule_type passed, or kept.
UpdatesOf(task, cfg) ==
    LET names == {("name" :> n) : n \in cfg.names \ {task.name}}
        params == {("parameters" :> p) : p \in cfg.params \ {task.parameters}}
        enabled == {("enabled" :> b) : b \in BOOLEAN}
        schedule ==
            {("schedule_value" :> v) : v \in ValuesOf(task.schedule_type)}
            \cup UNION {{("schedule_type" :> st) @@ ("schedule_value" :> v) :
                            v \in ValuesOf(st)} : st \in cfg.stypes}
    IN  {<<>>} \cup names \cup params \cup schedule
        \cup {a @@ b : a \in names, b \in enabled}

\* The keyword arguments a caller of the service itself passes: no key, any
\* one field of TaskUpdate, and with direct any other field of the task, here
\* action, id, run_count and error_count.
ServiceUpdatesOf(task, cfg, direct) ==
    {<<>>}
    \cup {("name" :> n) : n \in cfg.names \ {task.name}}
    \cup {("parameters" :> p) : p \in cfg.params \ {task.parameters}}
    \cup {("schedule_value" :> v) : v \in ValuesOf(task.schedule_type)}
    \cup {("enabled" :> b) : b \in BOOLEAN}
    \cup (IF direct
          THEN {("action" :> a) : a \in Actions \ {task.action}}
               \cup {("id" :> i) : i \in cfg.ids \ {task.id}}
               \cup {("run_count" :> c) : c \in {0} \ {task.run_count}}
               \cup {("error_count" :> c) : c \in {0} \ {task.error_count}}
          ELSE {})

Touch(id, updates) ==
    [hist EXCEPT ![id].updated =
        IF "enabled" \in DOMAIN updates /\ updates["enabled"] /\ ~obj[id].enabled
        THEN "reenabled" ELSE "yes"]

\* update_task(task_id, **updates)
UpdateTask(id, updates) ==
    /\ ~Blocked
    /\ IF id \notin tasks
       THEN UNCHANGED <<obj, hist>>
       ELSE /\ obj' = [obj EXCEPT ![id] = update_task(obj[id], updates, now)]
            /\ hist' = Touch(id, updates)
    /\ UNCHANGED <<now, tasks, task_handlers, running, loops, scheduler_task, execs, nexec>>

\* enable_task(task_id)
EnableTask(id) == UpdateTask(id, ("enabled" :> TRUE))

\* disable_task(task_id)
DisableTask(id) == UpdateTask(id, ("enabled" :> FALSE))

\* delete_task(task_id)
DeleteTask(id) ==
    /\ ~Blocked
    /\ IF id \in tasks THEN tasks' = tasks \ {id} ELSE UNCHANGED tasks
    /\ UNCHANGED <<now, obj, task_handlers, running, loops, scheduler_task, execs, nexec, hist>>

\* A faulty run_task_now: it finds the task among all the task objects, the
\* deleted ones included.
RunTaskNow_of_any_object(id) ==
    /\ ~Blocked
    /\ IF id \notin DOMAIN obj
       THEN UNCHANGED <<execs, nexec, hist>>
       ELSE /\ nexec < MaxExecs
            /\ execs' = Append(execs, Execution(id, "manual"))
            /\ nexec' = nexec + 1
            /\ hist' = [hist EXCEPT ![id].manual = TRUE]
    /\ UNCHANGED <<now, obj, tasks, task_handlers, running, loops, scheduler_task>>

\* run_task_now(task_id)
RunTaskNow(id) ==
    /\ ~Blocked
    /\ IF id \notin tasks
       THEN UNCHANGED <<execs, nexec, hist>>
       ELSE /\ nexec < MaxExecs
            /\ execs' = Append(execs, Execution(id, "manual"))
            /\ nexec' = nexec + 1
            /\ hist' = [hist EXCEPT ![id].manual = TRUE]
    /\ UNCHANGED <<now, obj, tasks, task_handlers, running, loops, scheduler_task>>

\* A faulty start: it does not look at self.running.
Start_unchecked ==
    /\ ~Blocked
    /\ running' = TRUE
    /\ loops' = Append(loops, 0)
    /\ scheduler_task' = "live"
    /\ UNCHANGED <<now, obj, tasks, task_handlers, execs, nexec, hist>>

\* start()
Start ==
    /\ ~Blocked
    /\ IF running
       THEN UNCHANGED <<running, loops, scheduler_task>>
       ELSE /\ running' = TRUE
            /\ loops' = Append(loops, 0)
            /\ scheduler_task' = "live"
    /\ UNCHANGED <<now, obj, tasks, task_handlers, execs, nexec, hist>>

\* stop(): the cancelled loop is resumed only to raise CancelledError, which
\* `except Exception` does not catch.
Stop ==
    /\ ~Blocked
    /\ IF ~running
       THEN UNCHANGED <<running, loops, scheduler_task>>
       ELSE /\ running' = FALSE
            /\ IF scheduler_task = "live"
               THEN /\ loops' = SubSeq(loops, 1, Len(loops) - 1)
                    /\ scheduler_task' = "done"
               ELSE UNCHANGED <<loops, scheduler_task>>
    /\ UNCHANGED <<now, obj, tasks, task_handlers, execs, nexec, hist>>

\* A faulty scan: it goes over every task object, deleted ones included.
Due_of_all_objects(t) ==
    {id \in DOMAIN obj : obj[id].enabled /\ obj[id].next_run # None /\ obj[id].next_run <= t}

RemoveAt(seq, i) == SubSeq(seq, 1, i - 1) \o SubSeq(seq, i + 1, Len(seq))

\* A faulty stop: it clears self.running and does not cancel the loop.
StopCancel_without_cancel ==
    /\ ~Blocked
    /\ running' = FALSE
    /\ UNCHANGED <<now, obj, tasks, task_handlers, loops, scheduler_task, execs, nexec, hist>>

\* stop() up to `await self._scheduler_task`: the loop is cancelled, and
\* stop() is suspended until the loop has ended.  Other callbacks of the event
\* loop may run before the cancelled loop is resumed.
StopCancel ==
    /\ ~Blocked
    /\ IF ~running
       THEN UNCHANGED <<running, loops>>
       ELSE /\ running' = FALSE
            /\ loops' = IF scheduler_task = "live"
                        THEN [loops EXCEPT ![Len(loops)] = Cancelled] ELSE loops
    /\ UNCHANGED <<now, obj, tasks, task_handlers, scheduler_task, execs, nexec, hist>>

\* The cancelled loop is resumed: asyncio.sleep raises CancelledError, which
\* no `except Exception` catches; the loop ends, and the stop() that awaits it
\* returns.
LoopCancelled(i) ==
    /\ ~Blocked
    /\ i \in DOMAIN loops
    /\ loops[i] = Cancelled
    /\ loops' = RemoveAt(loops, i)
    /\ scheduler_task' = IF i = Len(loops) /\ scheduler_task = "live"
                         THEN "done" ELSE scheduler_task
    /\ UNCHANGED <<now, obj, tasks, task_handlers, running, execs, nexec, hist>>

\* A faulty scan: a task whose next_run is the captured now is not due.
Due_strictly_before(t) ==
    {id \in tasks : obj[id].enabled /\ obj[id].next_run # None /\ obj[id].next_run < t}

\* The tasks one scan of the loop dispatches.
Due(t) ==
    {id \in tasks : obj[id].enabled /\ obj[id].next_run # None /\ obj[id].next_run <= t}

\* The enabled tasks at which the scan raises: `task.next_run <= now` with a
\* next_run that is not a datetime.
Unscannable == {id \in tasks : obj[id].enabled /\ obj[id].next_run = Corrupt}

\* Those of the due tasks the scan reaches: the ones before the first task at
\* which it raises.
Scanned(due) == {id \in due : \A bad \in Unscannable : id < bad}

\* asyncio.create_task(self._execute_task(task)) for the due tasks, in the
\* order of the snapshot list(self.tasks.items()): the order of creation.
RECURSIVE Dispatch(_)
Dispatch(due) ==
    IF due = {} THEN <<>>
    ELSE LET id == CHOOSE i \in due : \A j \in due : i <= j
         IN  <<Execution(id, "loop")>> \o Dispatch(due \ {id})

\* One iteration of `while self.running` in _scheduler_loop, up to its sleep:
\* the one after the scan, or the one of `except Exception` when the scan
\* raised.
\* The event loop runs its callbacks in the order they became ready: the
\* executions created before the loop's sleep ended have been started.
Tick(i) ==
    /\ ~Blocked
    /\ \A k \in DOMAIN execs : execs[k].status # "pending"
    /\ i \in 1..Len(loops)
    /\ loops[i] = 0
    /\ IF ~running
       THEN /\ loops' = RemoveAt(loops, i)
            /\ scheduler_task' = IF i = Len(loops) /\ scheduler_task = "live"
                                 THEN "done" ELSE scheduler_task
            /\ UNCHANGED <<execs, nexec>>
       ELSE LET due == Scanned(Due(now))
            IN  /\ nexec + Cardinality(due) <= MaxExecs
                /\ execs' = execs \o Dispatch(due)
                /\ nexec' = nexec + Cardinality(due)
                /\ loops' = [loops EXCEPT ![i] = IF Unscannable = {} THEN TickSleep
                                                ELSE BackoffSleep]
                /\ UNCHANGED scheduler_task
    /\ UNCHANGED <<now, obj, tasks, task_handlers, running, hist>>

\* A faulty success path: next_run is computed before the bookkeeping.
execute_success_stale_next_run(task, t) ==
    [task EXCEPT !.last_run = t, !.run_count = @ + 1, !.last_error = NoneStr,
                 !.next_run = calculate_next_run(task, t)]

\* A faulty success path: the bookkeeping puts the task back as it was when
\* it was dispatched, enabled, and schedules it.
execute_success_rearming(task, t) ==
    LET done == [task EXCEPT !.last_run = t, !.run_count = @ + 1,
                             !.last_error = NoneStr, !.enabled = TRUE]
    IN  [done EXCEPT !.next_run = calculate_next_run(done, t)]

\* _execute_task after a handler that returned.
execute_success(task, t) ==
    LET done == [task EXCEPT !.last_run = t, !.run_count = @ + 1,
                             !.last_error = NoneStr]
    IN  [done EXCEPT !.next_run = calculate_next_run(done, t)]

\* A faulty failure path: the failure is recorded but not counted.
execute_failure_uncounted(task, msg, t) ==
    LET failed == [task EXCEPT !.last_error = msg]
    IN  [failed EXCEPT !.next_run = calculate_next_run(failed, t)]

\* _execute_task after a handler that raised, or that was not found.
execute_failure(task, msg, t) ==
    LET failed == [task EXCEPT !.error_count = @ + 1, !.last_error = msg]
    IN  [failed EXCEPT !.next_run = calculate_next_run(failed, t)]

\* _execute_task from its first line to the handler's first suspension.  The
\* event loop starts the coroutines in the order they were created.
ExecStart(i) ==
    /\ ~Blocked
    /\ i \in DOMAIN execs
    /\ execs[i].status = "pending"
    /\ \A j \in 1..(i - 1) : execs[j].status # "pending"
    /\ LET id == execs[i].task
           task == obj[id]
       IN  IF task.action \notin DOMAIN task_handlers
           THEN /\ obj' = [obj EXCEPT ![id] = execute_failure(task, HandlerNotFound, now)]
                /\ execs' = RemoveAt(execs, i)
                /\ hist' = [hist EXCEPT ![id].outcome = "failed"]
           ELSE /\ execs' = [execs EXCEPT ![i].status = "running", ![i].started = now,
                                          ![i].kind = task_handlers[task.action]]
                /\ UNCHANGED <<obj, hist>>
    /\ UNCHANGED <<now, tasks, task_handlers, running, loops, scheduler_task, nexec>>

\* A faulty executor: an exception of the handler is recorded and raised
\* again, into the polling loop, which ends.
ExecFinish_raising(i, msg) ==
    /\ i \in DOMAIN execs
    /\ execs[i].status = "running"
    /\ Blocked => execs[i].kind = "sync"
    /\ LET id == execs[i].task
       IN  /\ obj' = [obj EXCEPT ![id] =
                         IF msg = NoneStr THEN execute_success(@, now)
                         ELSE execute_failure(@, msg, now)]
           /\ hist' = [hist EXCEPT ![id].outcome = IF msg = NoneStr THEN "ok" ELSE "failed"]
    /\ execs' = RemoveAt(execs, i)
    /\ IF msg = NoneStr \/ loops = <<>>
       THEN UNCHANGED <<loops, scheduler_task>>
       ELSE /\ loops' = SubSeq(loops, 1, Len(loops) - 1)
            /\ scheduler_task' = "done"
    /\ UNCHANGED <<now, tasks, task_handlers, running, nexec>>

\* The handler returns (msg = NoneStr) or raises msg, and _execute_task runs
\* to its end.
ExecFinish(i, msg) ==
    /\ i \in DOMAIN execs
    /\ execs[i].status = "running"
    /\ Blocked => execs[i].kind = "sync"
    /\ LET id == execs[i].task
       IN  /\ obj' = [obj EXCEPT ![id] =
                         IF msg = NoneStr THEN execute_success(@, now)
                         ELSE execute_failure(@, msg, now)]
           /\ hist' = [hist EXCEPT ![id].outcome = IF msg = NoneStr THEN "ok" ELSE "failed"]
    /\ execs' = RemoveAt(execs, i)
    /\ UNCHANGED <<now, tasks, task_handlers, running, loops, scheduler_task, nexec>>

\* ------------------------------------------------------- specification
\* The ids uuid4 draws.
TaskIds == {1}

\* cfg: the ids uuid4 draws, the schedule types, names and parameters the
\* callers pass, the handlers they register and the messages handlers raise.
NextOn(cfg) ==
    \/ Advance
    \/ \E r \in cfg.handlers : RegisterHandler(r[1], r[2])
    \/ \E action \in Actions, stype \in cfg.stypes :
          \E svalue \in ValuesOf(stype) :
             CreateTask(cfg.ids, "n1", action, "p1", stype, svalue)
    \/ \E id \in cfg.ids : \E updates \in (IF id \in tasks THEN UpdatesOf(obj[id], cfg)
                                           ELSE {("name" :> "n2")}) :
          UpdateTask(id, updates)
    \/ \E id \in cfg.ids : EnableTask(id)
    \/ \E id \in cfg.ids : DisableTask(id)
    \/ \E id \in cfg.ids : DeleteTask(id)
    \/ \E id \in cfg.ids : RunTaskNow(id)
    \/ Start
    \/ Stop
    \/ \E i \in DOMAIN loops : Tick(i)
    \/ \E i \in DOMAIN execs : ExecStart(i)
    \/ \E i \in DOMAIN execs : \E msg \in cfg.messages \cup {NoneStr} : ExecFinish(i, msg)

\* One task, of schedule type 'once' or 'interval'; its name and parameters
\* are not updated.
Next ==
    NextOn([ids |-> TaskIds, stypes |-> {"once", "interval"}, names |-> {"n1"},
            params |-> {"p1"}, handlers |-> RegInputs, messages |-> Messages])

Spec == Init /\ [][Next]_vars

\* One task, of any schedule type; the handler is a coroutine function, and
\* raises one message.
NextKinds ==
    NextOn([ids |-> TaskIds, stypes |-> ScheduleTypes, names |-> {"n1"},
            params |-> {"p1"}, handlers |-> {<<"act", "async">>}, messages |-> {"e1"}])

SpecKinds == Init /\ [][NextKinds]_vars

\* Two tasks and the callers of update_task: they update and run the first
\* task, one execution at a time; the second task is left as it was created.
\* The loop is not started.  With direct the callers are callers of the
\* service itself and pass any field of the task as a keyword; without it
\* they pass the fields of the router's TaskUpdate only.
UpdateCfg ==
    [ids |-> {1, 2}, stypes |-> {"once", "interval"}, names |-> {"n1", "n2"},
     params |-> {"p1", "p2"}]

NextCallers(direct) ==
    \/ Advance
    \/ RegisterHandler("act", "async")
    \/ \E stype \in UpdateCfg.stypes : \E svalue \in ValuesOf(stype) :
          CreateTask(UpdateCfg.ids, "n1", "act", "p1", stype, svalue)
    \/ \E updates \in (IF 1 \in tasks THEN ServiceUpdatesOf(obj[1], UpdateCfg, direct)
                        ELSE {}) :
          UpdateTask(1, updates)
    \/ execs = <<>> /\ RunTaskNow(1)
    \/ \E i \in DOMAIN execs : ExecStart(i)
    \/ \E i \in DOMAIN execs : \E msg \in {"e1", NoneStr} : ExecFinish(i, msg)

NextUpdate == NextCallers(FALSE)

SpecUpdate == Init /\ [][NextUpdate]_vars

NextService == NextCallers(TRUE)

SpecService == Init /\ [][NextService]_vars

\* The lifecycle: start and stop called in any order, stop suspended at its
\* await; two interval tasks, executed by the loop only.
NextLifecycle ==
    \/ Advance
    \/ RegisterHandler("act", "async")
    \/ \E svalue \in ValuesOf("interval") :
          CreateTask({1, 2}, "n1", "act", "p1", "interval", svalue)
    \/ (running \/ Len(loops) < MaxLoops) /\ Start
    \/ StopCancel
    \/ \E i \in DOMAIN loops : LoopCancelled(i)
    \/ \E i \in DOMAIN loops : Tick(i)
    \/ \E i \in DOMAIN execs : ExecStart(i)
    \/ \E i \in DOMAIN execs : \E msg \in {"e1", NoneStr} : ExecFinish(i, msg)

SpecLifecycle == Init /\ [][NextLifecycle]_vars

\* The calculator at every instant of the calendar: the service is constructed
\* at any instant of the first CalcDays days, and one task of each repeating
\* schedule type, with every schedule value, is created, disabled, enabled,
\* given another schedule value and run by hand.
InitCalc ==
    /\ now \in 0..(CalcDays * DayLen - 1)
    /\ obj = <<>>
    /\ tasks = {}
    /\ task_handlers = <<>>
    /\ running = FALSE
    /\ loops = <<>>
    /\ scheduler_task = "None"
    /\ execs = <<>>
    /\ nexec = 0
    /\ hist = <<>>

NextCalc ==
    \/ Advance
    \/ RegisterHandler("act", "async")
    \/ \E stype \in {"interval", "daily", "weekly"} : \E svalue \in CalcValuesOf(stype) :
          CreateTask({1}, "n1", "act", "p1", stype, svalue)
    \/ 1 \in tasks /\ EnableTask(1)
    \/ 1 \in tasks /\ DisableTask(1)
    \/ \E svalue \in (IF 1 \in tasks THEN CalcValuesOf(obj[1].schedule_type) ELSE {}) :
          UpdateTask(1, ("schedule_value" :> svalue))
    \/ execs = <<>> /\ 1 \in tasks /\ RunTaskNow(1)
    \/ \E i \in DOMAIN execs : ExecStart(i)
    \/ \E i \in DOMAIN execs : \E msg \in {"e1", NoneStr} : ExecFinish(i, msg)

SpecCalc == InitCalc /\ [][NextCalc]_vars

\* Two interval tasks the loop executes; the handler returns or raises, and
\* a caller of the service itself sets the action of the first task to one
\* no handler is registered for.
NextIsolated ==
    \/ Advance
    \/ RegisterHandler("act", "async")
    \/ \E svalue \in ValuesOf("interval") :
          CreateTask({1, 2}, "n1", "act", "p1", "interval", svalue)
    \/ 1 \in tasks /\ obj[1].action = "act" /\ UpdateTask(1, ("action" :> "other"))
    \/ ~running /\ Start
    \/ \E i \in DOMAIN loops : Tick(i)
    \/ \E i \in DOMAIN execs : ExecStart(i)
    \/ \E i \in DOMAIN execs : \E msg \in {"e1", NoneStr} : ExecFinish(i, msg)

SpecIsolated == Init /\ [][NextIsolated]_vars

\* A corrupted record: two interval tasks of one second, and a caller of the
\* service itself that sets the next_run of one of them to a value that is
\* not a datetime.  The scheduler is started and not stopped, and the clock
\* runs long enough for the loop to come back from its backoff; a loop whose
\* sleep has ended ticks before the clock moves on.
TickInTime == (\A i \in DOMAIN loops : loops[i] # 0) /\ AdvanceUpTo(MaxBackoffTime)

\* Time passes after the clock has reached MaxBackoffTime: the sleeps go on
\* and end, and datetime.now() is read as MaxBackoffTime from then on.
SleepOn ==
    /\ now = MaxBackoffTime
    /\ \A i \in DOMAIN loops : loops[i] # 0
    /\ \E i \in DOMAIN loops : loops[i] > 0
    /\ loops' = [i \in DOMAIN loops |-> IF loops[i] > 0 THEN loops[i] - 1 ELSE loops[i]]
    /\ UNCHANGED <<now, obj, tasks, task_handlers, running, scheduler_task,
                   execs, nexec, hist>>

NextBackoff ==
    \/ TickInTime
    \/ SleepOn
    \/ RegisterHandler("act", "async")
    \/ CreateTask({1, 2}, "n1", "act", "p1", "interval", <<None, 1>>)
    \/ \E id \in tasks : obj[id].next_run # Corrupt /\ UpdateTask(id, ("next_run" :> Corrupt))
    \/ ~running /\ Start
    \/ \E i \in DOMAIN loops : Tick(i)
    \/ \E i \in DOMAIN execs : ExecStart(i)
    \/ \E i \in DOMAIN execs : \E msg \in {"e1", NoneStr} : ExecFinish(i, msg)

\* The event loop runs every callback that is ready, and time passes.
SpecBackoff ==
    /\ Init /\ [][NextBackoff]_vars
    /\ WF_vars(TickInTime)
    /\ WF_vars(SleepOn)
    /\ WF_vars(\E i \in DOMAIN loops : Tick(i))
    /\ WF_vars(\E i \in DOMAIN execs : ExecStart(i))
    /\ WF_vars(\E i \in DOMAIN execs : \E msg \in {"e1", NoneStr} : ExecFinish(i, msg))

\* A handler that never returns.  The first task is a 'once' task whose
\* instant has passed, so only run_task_now executes it, once, and the handler
\* never returns from that invocation; the second task is an interval task
\* the loop executes, and its handler returns or raises.  The scheduler is
\* started and not stopped.
NextHang ==
    \/ Advance
    \/ \E r \in RegInputs : RegisterHandler(r[1], r[2])
    \/ \E svalue \in ValuesOf("once") :
          /\ obj = <<>> /\ svalue[2] <= now
          /\ CreateTask({1, 2}, "n1", "act", "p1", "once", svalue)
    \/ \E svalue \in ValuesOf("interval") :
          /\ Len(obj) = 1
          /\ CreateTask({1, 2}, "n1", "act", "p1", "interval", svalue)
    \/ 1 \in tasks /\ ~hist[1].manual /\ RunTaskNow(1)
    \/ ~running /\ Start
    \/ \E i \in DOMAIN loops : Tick(i)
    \/ \E i \in DOMAIN execs : ExecStart(i)
    \/ \E i \in DOMAIN execs : \E msg \in {"e1", NoneStr} :
          execs[i].src = "loop" /\ ExecFinish(i, msg)

\* The event loop runs every callback that is ready, and time passes; the
\* handler invoked by run_task_now is never ready to return.
SpecHang ==
    /\ Init /\ [][NextHang]_vars
    /\ WF_vars(Advance)
    /\ WF_vars(\E i \in DOMAIN loops : Tick(i))
    /\ WF_vars(\E i \in DOMAIN execs : ExecStart(i))
    /\ WF_vars(\E i \in DOMAIN execs : \E msg \in {"e1", NoneStr} :
                  execs[i].src = "loop" /\ ExecFinish(i, msg))

\* ============================================================== properties
\* A task nobody updated, a task only the loop executes.
NotUpdated(id) == hist[id].updated = "no"
LoopOnly(id) == ~hist[id].manual

\* A 'once' task whose schedule_value was in the future when it was created.
FutureOnce(id) ==
    /\ obj[id].schedule_type = "once"
    /\ obj[id].schedule_value[2] > obj[id].created_at

\* The step is the end of execution i: the handler raised msg, or returned
\* (msg = NoneStr).
Finished(i, msg) ==
    /\ i \in DOMAIN execs
    /\ Len(execs') < Len(execs)
    /\ ExecFinish(i, msg)

\* C1: a 'once' task created with a future schedule_value, and not updated
\* since, has next_run = schedule_value until its first execution attempt has
\* ended, and an absent next_run from then on, whether the attempt succeeded
\* or failed and whether the loop or run_task_now made it.
C1_OnceNextRun ==
    \A id \in DOMAIN obj :
        (FutureOnce(id) /\ NotUpdated(id)) =>
            /\ hist[id].outcome = "none" => obj[id].next_run = obj[id].schedule_value[2]
            /\ hist[id].outcome # "none" => obj[id].next_run = None

\* C2: a 'once' task that nobody updated and that only the loop executes never
\* has a run_count above 1.
C2_OnceRunCount ==
    \A id \in DOMAIN obj :
        (obj[id].schedule_type = "once" /\ NotUpdated(id) /\ LoopOnly(id)) =>
            obj[id].run_count <= 1

\* C3: for an interval task of N seconds that nobody updated and that only the
\* loop executes, each run after the first sets a last_run at least N after
\* the last_run before it.
C3_IntervalNeverEarly ==
    [][\A id \in DOMAIN obj :
          (/\ obj[id].schedule_type = "interval"
           /\ NotUpdated(id) /\ LoopOnly(id)
           /\ obj[id].last_run # None
           /\ obj'[id].run_count = obj[id].run_count + 1) =>
              obj'[id].last_run - obj[id].last_run >= obj[id].schedule_value[2]]_vars

\* C5: an execution whose handler raises increases run_count by 1, sets
\* last_run to an instant of that execution, and recomputes next_run.
C5_FailureConsumesSlot ==
    [][\A i \in DOMAIN execs : \A msg \in Messages :
          Finished(i, msg) =>
              LET id == execs[i].task
              IN  /\ obj'[id].run_count = obj[id].run_count + 1
                  /\ obj'[id].last_run \in execs[i].started..now
                  /\ obj'[id].next_run = calculate_next_run(obj'[id], now)]_vars

\* C6: an execution whose handler returns increases run_count by 1 and sets
\* last_run to the instant the handler was invoked.
C6_SuccessStartInstant ==
    [][\A i \in DOMAIN execs :
          Finished(i, NoneStr) =>
              LET id == execs[i].task
              IN  /\ obj'[id].run_count = obj[id].run_count + 1
                  /\ obj'[id].last_run = execs[i].started]_vars

\* C10: the execution run_task_now made of a task that is disabled when it
\* ends increases run_count by 1 and sets last_run to an instant of that
\* execution, and leaves the task disabled with an absent next_run.
C10_RunNowDisabled ==
    [][\A i \in DOMAIN execs : \A msg \in Messages \cup {NoneStr} :
          (Finished(i, msg) /\ execs[i].src = "manual" /\ ~obj[execs[i].task].enabled) =>
              LET id == execs[i].task
              IN  /\ obj'[id].run_count = obj[id].run_count + 1
                  /\ obj'[id].last_run \in execs[i].started..now
                  /\ ~obj'[id].enabled
                  /\ obj'[id].next_run = None]_vars

\* C4: the end of an execution whose handler raised msg increases error_count
\* by 1 and sets last_error to msg; the end of one whose handler returned
\* clears last_error and leaves error_count as it was.  In every state
\* last_error is set exactly when the task's last ended execution failed.
C4_FailureRecord ==
    /\ [](\A id \in DOMAIN obj :
             obj[id].last_error # NoneStr <=> hist[id].outcome = "failed")
    /\ [][\A i \in DOMAIN execs : \A msg \in Messages \cup {NoneStr} :
             Finished(i, msg) =>
                 LET id == execs[i].task
                 IN  IF msg # NoneStr
                     THEN /\ obj'[id].error_count = obj[id].error_count + 1
                          /\ obj'[id].last_error = msg
                     ELSE /\ obj'[id].error_count = obj[id].error_count
                          /\ obj'[id].last_error = NoneStr]_vars

\* A task that failed and then succeeded: the error is counted, last_error is
\* cleared.
C4_Witness ==
    \E id \in DOMAIN obj :
        /\ hist[id].outcome = "ok"
        /\ obj[id].error_count > 0
        /\ obj[id].last_error = NoneStr

\* C7: a step that creates a task, that changes a task's enabled,
\* schedule_type or schedule_value, that ends an execution of it, or that
\* changes its next_run, leaves next_run equal to the calculator's output for
\* the task's fields at that instant.
C7_NextRunIsCalculated ==
    [][\A id \in DOMAIN obj' :
          LET new == obj'[id]
          IN  IF id \notin DOMAIN obj
              THEN new.next_run = calculate_next_run(new, now')
              ELSE LET old == obj[id]
                   IN  (\/ new.enabled # old.enabled
                        \/ new.schedule_type # old.schedule_type
                        \/ new.schedule_value # old.schedule_value
                        \/ new.run_count # old.run_count
                        \/ new.error_count # old.error_count
                        \/ new.next_run # old.next_run) =>
                           new.next_run = calculate_next_run(new, now')]_vars

\* A task that was updated and executed, and is scheduled.
C7_Witness ==
    \E id \in DOMAIN obj :
        /\ hist[id].updated # "no"
        /\ hist[id].outcome # "none"
        /\ obj[id].run_count > 0
        /\ obj[id].next_run # None

\* C8: a disabled task has an absent next_run in every state; a scan of the
\* loop dispatches enabled tasks only; disable_task on a known task leaves it
\* disabled with an absent next_run.
C8_DisabledNeverScheduled ==
    /\ [](\A id \in DOMAIN obj : ~obj[id].enabled => obj[id].next_run = None)
    /\ [][/\ \A i \in DOMAIN loops :
                Tick(i) => \A k \in (Len(execs) + 1)..Len(execs') :
                               obj[execs'[k].task].enabled
          /\ \A id \in tasks :
                DisableTask(id) => ~obj'[id].enabled /\ obj'[id].next_run = None]_vars

\* The loop has just scanned a disabled interval task whose first run was due,
\* and nothing was ever dispatched.
C8_Witness ==
    \E id \in tasks :
        /\ ~obj[id].enabled
        /\ obj[id].schedule_type = "interval"
        /\ obj[id].created_at + obj[id].schedule_value[2] <= now
        /\ running /\ loops = <<TickSleep>>
        /\ nexec = 0

\* C9 as the specification states it: enable_task on a disabled task leaves a
\* next_run that is not absent, that is the calculator's output at that
\* instant, and that is not earlier than that instant.
C9_ReenableConcrete ==
    [][\A id \in tasks :
          (EnableTask(id) /\ ~obj[id].enabled) =>
              /\ obj'[id].next_run # None
              /\ obj'[id].next_run = calculate_next_run(obj'[id], now)
              /\ obj'[id].next_run >= now]_vars

\* C9: enable_task on a disabled task enables it and sets next_run to the
\* calculator's output at that instant.  That is a later instant for a
\* 'daily' or 'weekly' task and for an 'interval' task that never ran;
\* last_run + N, which may be past, for an 'interval' task that ran; and for
\* a 'once' task schedule_value if that is still ahead and the task never
\* ran, absent otherwise.
C9_ReenableRecomputes ==
    [][\A id \in tasks :
          (EnableTask(id) /\ ~obj[id].enabled) =>
              LET task == obj'[id]
                  value == task.schedule_value[2]
              IN  /\ task.enabled
                  /\ task.next_run = calculate_next_run(task, now)
                  /\ task.schedule_type \in {"daily", "weekly"} => task.next_run > now
                  /\ task.schedule_type = "interval" =>
                        task.next_run = IF task.last_run = None THEN now + value
                                        ELSE task.last_run + value
                  /\ task.schedule_type = "once" =>
                        task.next_run = IF value > now /\ task.run_count = 0
                                        THEN value ELSE None]_vars

\* A 'once' task that was never executed, re-enabled when its schedule_value
\* had passed: its next_run is absent.
C9_Witness ==
    \E id \in tasks :
        /\ hist[id].updated = "reenabled"
        /\ hist[id].outcome = "none"
        /\ obj[id].enabled
        /\ obj[id].schedule_type = "once"
        /\ obj[id].schedule_value[2] <= now
        /\ obj[id].next_run = None

\* C11: delete_task on a known id removes it from the store at once; an id
\* that was deleted is never in the store again, whatever executions of the
\* task end afterwards; and every execution the loop dispatches is of a task
\* that is in the store.
C11_DeletionIsPermanent ==
    [][/\ \A id \in tasks : DeleteTask(id) => id \notin tasks'
       /\ \A id \in DOMAIN obj \ tasks : id \notin tasks'
       /\ \A k \in (Len(execs) + 1)..Len(execs') :
             execs'[k].src = "loop" => execs'[k].task \in tasks]_vars

\* A deleted task was executed by the loop, and the loop scans again while it
\* would be due.
C11_Witness ==
    \E id \in DOMAIN obj \ tasks :
        /\ obj[id].run_count > 0
        /\ ~hist[id].manual
        /\ obj[id].enabled /\ obj[id].next_run # None /\ obj[id].next_run <= now
        /\ running /\ loops = <<TickSleep>>

\* C12: create_task with an action that has no registered handler changes
\* neither the task objects nor the store; and every task a step creates is
\* put in the store with an action that has a registered handler.
C12_CreateChecksAction ==
    [][/\ \A action \in Actions \ DOMAIN task_handlers : \A stype \in ScheduleTypes :
             \A svalue \in ValuesOf(stype) :
                CreateTask(TaskIds, "n1", action, "p1", stype, svalue) =>
                    obj' = obj /\ tasks' = tasks
       /\ \A id \in DOMAIN obj' \ DOMAIN obj :
             /\ obj'[id].action \in DOMAIN task_handlers
             /\ id \in tasks']_vars

\* A task is in the store, its action is registered, and another action is
\* not.
C12_Witness ==
    \E id \in tasks :
        /\ obj[id].action \in DOMAIN task_handlers
        /\ Actions \ DOMAIN task_handlers # {}

\* C13: update_task, enable_task, disable_task, delete_task and run_task_now
\* on an id that is not in the store change nothing: no task object, not the
\* store, no execution, not the running flag nor the loop.
C13_UnknownIdChangesNothing ==
    [][\A id \in (TaskIds \cup DOMAIN obj) \ tasks :
          (\/ UpdateTask(id, ("name" :> "n2"))
           \/ EnableTask(id)
           \/ DisableTask(id)
           \/ DeleteTask(id)
           \/ RunTaskNow(id)) => UNCHANGED vars]_vars

\* The scheduler is running, and the id of a deleted task is unknown: its
\* object is as the deletion left it, enabled and never executed.
C13_Witness ==
    \E id \in DOMAIN obj \ tasks :
        /\ running
        /\ obj[id].enabled
        /\ hist[id] = NoHist
        /\ execs = <<>>

C15_StopEndsLoop ==
    [][/\ (running /\ StopCancel) =>
             ~running' /\ \A i \in DOMAIN loops' : loops'[i] = Cancelled
       /\ (~running /\ StopCancel) => UNCHANGED vars
       /\ ~running' => \A i \in DOMAIN loops' : loops'[i] = Cancelled
       /\ ~running => \A k \in (Len(execs) + 1)..Len(execs') : execs'[k].src # "loop"
       /\ \A i \in DOMAIN loops :
             LoopCancelled(i) => Len(loops') = Len(loops) - 1 /\ running' = running]_vars

\* stop has returned: the scheduler is stopped and no loop is left, a task is
\* due, and an execution dispatched before the stop is still running.
C15_Witness ==
    /\ ~running /\ loops = <<>> /\ scheduler_task = "done"
    /\ \E id \in tasks : obj[id].enabled /\ obj[id].next_run # None /\ obj[id].next_run < now
    /\ \E i \in DOMAIN execs : execs[i].src = "loop" /\ execs[i].status = "running"

\* C16: start on a running scheduler changes nothing; in every state at most
\* one loop is not cancelled, whatever the order of the start and stop calls;
\* and the executions one step dispatches are of different tasks.
C16_StartIdempotent ==
    [][/\ (running /\ Start) => UNCHANGED vars
       /\ Cardinality({i \in DOMAIN loops' : loops'[i] # Cancelled}) <= 1
       /\ \A j, k \in (Len(execs) + 1)..Len(execs') :
             j # k => execs'[j].task # execs'[k].task]_vars

\* start was called while a stop awaited the loop it cancelled, and the new
\* loop has dispatched two due tasks in one scan.
C16_Witness ==
    /\ running
    /\ Len(loops) = 2 /\ loops[1] = Cancelled /\ loops[2] = TickSleep
    /\ Len(execs) = 2
    /\ execs[1].src = "loop" /\ execs[2].src = "loop"
    /\ execs[1].task # execs[2].task
    /\ execs[1].status = "pending" /\ execs[2].status = "pending"

\* A step has applied the calculator to task id: the task is created, its
\* next_run is set to another value, or enable_task is called on it.
Calculated(id) ==
    \/ id \notin tasks
    \/ obj'[id].next_run # obj[id].next_run
    \/ EnableTask(id)

\* C17: for an enabled interval task of N seconds the calculator gives
\* last_run + N when last_run is set and now + N when it is not; a task that
\* has never run has its next_run a full interval after its creation or
\* later, and exactly a full interval after it as long as nothing was done
\* to the task.
C17_IntervalRule ==
    [][\A id \in tasks' :
          LET task == obj'[id]
              N == task.schedule_value[2]
          IN  (task.schedule_type = "interval" /\ task.enabled) =>
                 /\ Calculated(id) =>
                       task.next_run = IF task.last_run # None
                                       THEN task.last_run + N ELSE now + N
                 /\ task.last_run = None => task.next_run >= task.created_at + N
                 /\ (task.last_run = None /\ hist'[id] = NoHist) =>
                       task.next_run = task.created_at + N]_vars

\* An interval task that ran at an earlier instant was enabled again:
\* its next_run counts from last_run, not from now.
C17_Witness ==
    \E id \in tasks :
       /\ obj[id].schedule_type = "interval" /\ obj[id].enabled
       /\ hist[id].updated = "reenabled"
       /\ obj[id].last_run # None /\ obj[id].last_run < now
       /\ obj[id].next_run = obj[id].last_run + obj[id].schedule_value[2]

\* C18: for an enabled daily task at time of day T the calculator gives today
\* at T when now is before T today and tomorrow at T otherwise; the result
\* is after now and at most one day ahead.
C18_DailyRule ==
    [][\A id \in tasks' :
          LET task == obj'[id]
              T == task.schedule_value[2]
          IN  (task.schedule_type = "daily" /\ task.enabled /\ Calculated(id)) =>
                 /\ task.next_run = IF TimeOf(now) < T
                                    THEN Combine(DateOf(now), T)
                                    ELSE Combine(DateOf(now) + 1, T)
                 /\ task.next_run > now
                 /\ task.next_run <= now + DayLen]_vars

\* A daily task was created at its own time of day, on a day that is not the
\* first: its next_run is one whole day ahead.
C18_Witness ==
    \E id \in tasks :
       /\ obj[id].schedule_type = "daily" /\ obj[id].enabled
       /\ obj[id].created_at = now /\ DateOf(now) > 0
       /\ TimeOf(now) = obj[id].schedule_value[2]
       /\ obj[id].next_run = now + DayLen

\* C19: for an enabled weekly task at (weekday W, time of day T) the
\* calculator's result is at or after now, on weekday W, at time of day T.
C19_WeeklyRule ==
    [][\A id \in tasks' :
          LET task == obj'[id]
          IN  (task.schedule_type = "weekly" /\ task.enabled /\ Calculated(id)) =>
                 /\ task.next_run >= now
                 /\ Weekday(task.next_run) = task.schedule_value[1]
                 /\ TimeOf(task.next_run) = task.schedule_value[2]]_vars

\* A weekly task was created on its own weekday before its time of day, in
\* the second week: its next_run is on that weekday of the next week.
C19_Witness ==
    \E id \in tasks :
       /\ obj[id].schedule_type = "weekly" /\ obj[id].enabled
       /\ obj[id].created_at = now /\ DateOf(now) >= 7
       /\ Weekday(now) = obj[id].schedule_value[1]
       /\ TimeOf(now) < obj[id].schedule_value[2]
       /\ obj[id].next_run = Combine(DateOf(now) + 7, obj[id].schedule_value[2])

\* C20: no step changes the id, the action or the created_at of a stored
\* task, and the key a task is stored under is the task's id.
C20_Immutable ==
    [][\A id \in tasks \cap tasks' :
          /\ obj'[id].id = obj[id].id
          /\ obj'[id].action = obj[id].action
          /\ obj'[id].created_at = obj[id].created_at
          /\ obj'[id].id = id]_vars

\* C21: no step decreases the run_count or the error_count of a stored task,
\* and error_count is at most the number of executions dispatched.
C21_CountersMonotone ==
    [][\A id \in tasks \cap tasks' :
          /\ obj'[id].run_count >= obj[id].run_count
          /\ obj'[id].error_count >= obj[id].error_count
          /\ obj'[id].error_count <= nexec']_vars

\* C22: a tick dispatches no task that has an execution dispatched by the
\* loop still in flight, and after the tick the next_run of every task it
\* dispatched is absent or after now.
C22_NoDuplicateFiring ==
    [][\A k \in (Len(execs) + 1)..Len(execs') :
          execs'[k].src = "loop" =>
             /\ \A j \in DOMAIN execs :
                   ~(execs[j].src = "loop" /\ execs[j].task = execs'[k].task)
             /\ LET next_run == obj'[execs'[k].task].next_run
                IN  next_run = None \/ next_run > now]_vars

\* C23: when an execution of an enabled interval task of more than TickSleep
\* seconds ends with the handler raising, the recomputed next_run is after
\* now.
C23_RetryByRescheduling ==
    [][\A i \in DOMAIN execs : \A msg \in Messages :
          LET id == execs[i].task
          IN  (/\ Finished(i, msg)
               /\ obj[id].schedule_type = "interval"
               /\ obj[id].schedule_value[2] > TickSleep
               /\ obj[id].enabled) =>
                  obj'[id].next_run > now]_vars

\* An execution whose handler was invoked and never returns.
Hung(kinds) ==
    \E i \in DOMAIN execs :
       execs[i].src = "manual" /\ execs[i].status = "running" /\ execs[i].kind \in kinds

\* The second task is enabled and becomes due within the run, the scheduler
\* is running, and no execution of the task has ended yet.
OtherTaskDue ==
    IF 2 \in tasks
    THEN /\ running
         /\ obj[2].enabled
         /\ obj[2].next_run # None /\ obj[2].next_run <= MaxTime
         /\ hist[2].outcome = "none"
    ELSE FALSE

\* An execution of the second task has ended.
OtherTaskDone == IF 2 \in tasks THEN hist[2].outcome # "none" ELSE FALSE

\* C24: while a handler, synchronous or asynchronous, never returns and the
\* scheduler is running, another enabled task that becomes due is eventually
\* dispatched and its bookkeeping is completed.
C24_HangIsolated ==
    (Hung({"sync", "async"}) /\ OtherTaskDue) ~> OtherTaskDone

\* C24, for a coroutine function only: the same, while an asynchronous handler
\* never returns.
C24_AsyncHangIsolated ==
    (Hung({"async"}) /\ OtherTaskDue) ~> OtherTaskDone

\* An asynchronous handler hangs, and the other task was executed.
C24_AsyncWitness ==
    Hung({"async"}) /\ OtherTaskDone

\* C25: a step that ends an execution, the handler having returned, raised
\* or not been found, records the outcome in the executed task (a success
\* counted in run_count, or a failure counted in error_count with its
\* message), and leaves every other task's record, the set of stored tasks,
\* the running flag and the polling loops as they are.
C25_ExecutionIsolated ==
    [][\A i \in DOMAIN execs :
          (Len(execs') < Len(execs) /\ execs' = RemoveAt(execs, i)) =>
             LET id == execs[i].task
             IN  /\ \/ /\ obj'[id].run_count = obj[id].run_count + 1
                       /\ obj'[id].error_count = obj[id].error_count
                       /\ obj'[id].last_error = NoneStr
                    \/ /\ obj'[id].error_count = obj[id].error_count + 1
                       /\ obj'[id].run_count = obj[id].run_count
                       /\ obj'[id].last_error \in {"e1", HandlerNotFound}
                 /\ \A other \in DOMAIN obj \ {id} : obj'[other] = obj[other]
                 /\ DOMAIN obj' = DOMAIN obj
                 /\ tasks' = tasks
                 /\ running' = running
                 /\ loops' = loops
                 /\ scheduler_task' = scheduler_task]_vars

\* The first task failed for its missing handler and the second because its
\* handler raised; the scheduler is running with a live loop.
C25_Witness ==
    /\ tasks = {1, 2}
    /\ obj[1].last_error = HandlerNotFound /\ obj[1].error_count = 1
    /\ obj[2].last_error = "e1" /\ obj[2].error_count = 1
    /\ running /\ scheduler_task = "live" /\ loops # <<>>

\* The tasks of the executions a step has the loop dispatch.
LoopDispatched == {k \in (Len(execs) + 1)..Len(execs') : execs'[k].src = "loop"}

\* C26: every execution the loop dispatches is of a stored task that is
\* enabled and has a next_run at or before now, and it is dispatched while the
\* scheduler is running; a tick of a running scheduler dispatches one
\* execution for each such task.
C26_TickDispatchesDue ==
    [][/\ \A k \in LoopDispatched :
             LET id == execs'[k].task
             IN  /\ running
                 /\ id \in tasks
                 /\ obj[id].enabled
                 /\ obj[id].next_run # None
                 /\ obj[id].next_run <= now
       /\ \A i \in DOMAIN loops :
             (running /\ loops[i] = 0 /\ Len(loops') = Len(loops) /\ loops'[i] = TickSleep
                 /\ Tick(i)) =>
                /\ \A id \in tasks :
                      (obj[id].enabled /\ obj[id].next_run # None /\ obj[id].next_run <= now)
                         => Cardinality({k \in LoopDispatched : execs'[k].task = id}) = 1
                /\ Len(execs') = Len(execs) + Cardinality(LoopDispatched)]_vars

\* A tick at the very instant of a task's next_run has dispatched the task.
C26_Witness ==
    /\ running
    /\ \E i \in DOMAIN loops : loops[i] = TickSleep
    /\ \E k \in DOMAIN execs :
          /\ execs[k].src = "loop" /\ execs[k].status = "pending"
          /\ execs[k].task \in tasks
          /\ obj[execs[k].task].enabled
          /\ obj[execs[k].task].next_run = now

\* C27: for an enabled weekly task at (weekday W, time of day T) the
\* calculator's result is the earliest instant after now on weekday W at
\* time of day T: no such instant lies between now and the result, and the
\* result is at most 7 days after now.
C27_WeeklyEarliest ==
    [][\A id \in tasks' :
          LET task == obj'[id]
          IN  (task.schedule_type = "weekly" /\ task.enabled /\ Calculated(id)) =>
                 /\ task.next_run > now
                 /\ Weekday(task.next_run) = task.schedule_value[1]
                 /\ TimeOf(task.next_run) = task.schedule_value[2]
                 /\ task.next_run - 7 * DayLen <= now
                 /\ task.next_run <= now + 7 * DayLen]_vars

\* C28: when the calculator is applied to an enabled 'once' task that has
\* never run and whose schedule_value is the current instant, next_run is
\* the schedule_value.
C28_OnceAtNow ==
    [][\A id \in tasks' :
          LET task == obj'[id]
          IN  (/\ task.schedule_type = "once" /\ task.enabled /\ task.run_count = 0
               /\ task.schedule_value[2] = now
               /\ Calculated(id)) =>
                 task.next_run = task.schedule_value[2]]_vars

\* C29: the step that ends an execution leaves enabled, schedule_type and
\* schedule_value of the task as the callers set them while the execution was
\* in flight, and sets next_run to the calculator's output for them: absent
\* if the task was disabled.
C29_UpdatesSurviveBookkeeping ==
    [][\A i \in DOMAIN execs :
          (Len(execs') < Len(execs) /\ execs' = RemoveAt(execs, i)) =>
             LET id == execs[i].task
             IN  /\ obj'[id].enabled = obj[id].enabled
                 /\ obj'[id].schedule_type = obj[id].schedule_type
                 /\ obj'[id].schedule_value = obj[id].schedule_value
                 /\ obj'[id].next_run = calculate_next_run(obj'[id], now)
                 /\ ~obj[id].enabled => obj'[id].next_run = None]_vars

\* The loop dispatched a task, which it does for enabled tasks only, and the
\* task was disabled while its handler runs; the execution then ends.
C29_Witness ==
    \E i \in DOMAIN execs :
       /\ execs[i].src = "loop" /\ execs[i].status = "running"
       /\ hist[execs[i].task].updated = "yes"
       /\ ~obj[execs[i].task].enabled
       /\ obj[execs[i].task].next_run = None

\* The scheduler is running and task id, never executed so far, is enabled
\* with a next_run early enough, at an instant early enough, for the loop to
\* scan the task again after a backoff.
DueWithin(id) ==
    IF id \in tasks
    THEN /\ running
         /\ now <= MaxBackoffTime - BackoffSleep
         /\ obj[id].enabled
         /\ obj[id].next_run \notin {None, Corrupt}
         /\ obj[id].next_run <= MaxBackoffTime - BackoffSleep
         /\ hist[id].outcome = "none"
    ELSE FALSE

\* An execution of task id was dispatched, or the task's own next_run is
\* the corrupted one.
DispatchedOrCorrupt(id) ==
    IF id \in tasks
    THEN \/ \E k \in DOMAIN execs : execs[k].task = id
         \/ hist[id].outcome # "none"
         \/ obj[id].next_run = Corrupt
    ELSE FALSE

\* C30: while the scheduler is running, whatever record makes the scan of a
\* tick raise, the loop ticks again after its backoff and every task that is
\* due, unless its own record is the corrupted one, is eventually dispatched.
C30_DueStillDispatched ==
    /\ DueWithin(1) ~> DispatchedOrCorrupt(1)
    /\ DueWithin(2) ~> DispatchedOrCorrupt(2)

\* C30, for the first task of the store only: it is eventually dispatched
\* when the record of the second task makes the scan raise.
C30_FirstTaskDispatched == DueWithin(1) ~> DispatchedOrCorrupt(1)

\* C30, the loop only: a tick of a running scheduler leaves the loop alive
\* and asleep, for BackoffSleep seconds when the scan raised.
C30_LoopSurvives ==
    [][\A i \in DOMAIN loops :
          (running /\ loops[i] = 0 /\ Tick(i)) =>
             /\ running' /\ Len(loops') = Len(loops) /\ scheduler_task' = "live"
             /\ loops'[i] = IF Unscannable = {} THEN TickSleep ELSE BackoffSleep]_vars

\* The scan raised at the second task after it dispatched the first one, and
\* the loop is in its backoff.
C30_LoopWitness ==
    /\ running /\ loops # <<>> /\ loops[Len(loops)] = BackoffSleep
    /\ tasks = {1, 2} /\ obj[2].next_run = Corrupt /\ obj[2].enabled
    /\ \E k \in DOMAIN execs : execs[k].task = 1 /\ execs[k].src = "loop"

====
